---- MODULE Spec2Model ----
(***************************************************************************)
(* State-machine model of the ref-275 voting component                     *)
(* (src/src/vote.rs, src/src/services.rs).                                 *)
(*                                                                         *)
(* The component is a Yew Component: `update` processes one Message at a   *)
(* time; every `ctx.link().send_future(..)` spawns an independent task     *)
(* that later delivers exactly one Message.  Messages that originate from  *)
(* the user (ChangeBalance, RequestAccounts, SignWithAccount, ...) may be  *)
(* handed to `update` in any stage: `update` itself is what is modelled,   *)
(* not the buttons `view` happens to render.                               *)
(*                                                                         *)
(* Numbers of type u128 are little-endian sequences of 16 bytes, so that   *)
(* the arithmetic keeps its width and the SCALE encoding is the value.     *)
(***************************************************************************)
EXTENDS Integers, Sequences, FiniteSets, TLC

(***************************************************************************)
(* Bounds of the model.                                                    *)
(***************************************************************************)
\* messages the user sends over a run
MaxUserMessages == 4

(***************************************************************************)
(* Bytes and unsigned integers of arbitrary width (little-endian bytes).   *)
(***************************************************************************)
Rep(n, b) == [i \in 1..n |-> b]

U128Len == 16

\* the u128 value of a small natural number (n < 2^31)
U128(n) == [i \in 1..U128Len |-> IF i <= 4 THEN (n \div (256 ^ (i - 1))) % 256 ELSE 0]

RECURSIVE MulCarry(_, _, _)
\* little-endian bytes of (bytes * k + carry), as many bytes as the value needs
MulCarry(bytes, k, carry) ==
  IF bytes = <<>>
  THEN IF carry = 0 THEN <<>> ELSE <<carry % 256>> \o MulCarry(<<>>, k, carry \div 256)
  ELSE LET v == Head(bytes) * k + carry
       IN <<v % 256>> \o MulCarry(Tail(bytes), k, v \div 256)

RECURSIVE AddCarry(_, _, _)
\* little-endian bytes of (a + b + carry)
AddCarry(a, b, carry) ==
  IF a = <<>> /\ b = <<>>
  THEN IF carry = 0 THEN <<>> ELSE <<carry>>
  ELSE LET x == IF a = <<>> THEN 0 ELSE Head(a)
           y == IF b = <<>> THEN 0 ELSE Head(b)
           v == x + y + carry
       IN <<v % 256>> \o AddCarry(IF a = <<>> THEN <<>> ELSE Tail(a),
                                  IF b = <<>> THEN <<>> ELSE Tail(b),
                                  v \div 256)

RECURSIVE BigMul(_, _)
\* the exact product of two little-endian numbers
BigMul(a, b) ==
  IF b = <<>> THEN <<>>
  ELSE AddCarry(MulCarry(a, Head(b), 0), <<0>> \o BigMul(a, Tail(b)), 0)

\* TRUE iff the little-endian number fits in n bytes
FitsIn(bytes, n) == \A i \in 1..Len(bytes) : i > n => bytes[i] = 0

\* the low n bytes of a little-endian number (the value modulo 2^(8n))
Truncate(bytes, n) == [i \in 1..n |-> IF i <= Len(bytes) THEN bytes[i] ELSE 0]

(***************************************************************************)
(* Text: a String is a sequence of one-character strings.                  *)
(***************************************************************************)
HexChars == <<"0","1","2","3","4","5","6","7","8","9","a","b","c","d","e","f">>

DecChars == <<"0","1","2","3","4","5","6","7","8","9">>

\* hex::encode: two lower-case hex digits per byte, high nibble first
HexEncode(bytes) ==
  [i \in 1..(2 * Len(bytes)) |->
     LET b == bytes[(i + 1) \div 2]
     IN IF i % 2 = 1 THEN HexChars[(b \div 16) + 1] ELSE HexChars[(b % 16) + 1]]

\* services.rs to_hex: "0x" followed by the hex of the bytes as they are
to_hex(bytes) == <<"0", "x">> \o HexEncode(bytes)

\* the value of a hex digit (either case), or -1
HexVal(c) ==
  IF \E k \in 1..16 : HexChars[k] = c
  THEN (CHOOSE k \in 1..16 : HexChars[k] = c) - 1
  ELSE CASE c = "A" -> 10 [] c = "B" -> 11 [] c = "C" -> 12
         [] c = "D" -> 13 [] c = "E" -> 14 [] c = "F" -> 15 [] OTHER -> -1

\* the value of a decimal digit, or -1
DecVal(c) ==
  IF \E k \in 1..10 : DecChars[k] = c
  THEN (CHOOSE k \in 1..10 : DecChars[k] = c) - 1
  ELSE -1

\* results: Ok(value) or Err(error)
Ok(value) == [ok |-> TRUE, value |-> value]
Err(error) == [ok |-> FALSE, error |-> error]

ParseError == Err("ParseIntError")

RECURSIVE ParseDigits(_, _)
\* the loop of from_str_radix: result = result * 10 + digit, both checked
ParseDigits(chars, acc) ==
  IF chars = <<>> THEN Ok(acc)
  ELSE LET d == DecVal(Head(chars))
       IN IF d < 0 THEN ParseError
          ELSE LET next == MulCarry(acc, 10, d)
               IN IF FitsIn(next, U128Len)
                  THEN ParseDigits(Tail(chars), Truncate(next, U128Len))
                  ELSE ParseError

\* str::parse::<u128>: empty, a lone sign, a "-", a non-digit or a value
\* above u128::MAX is an error; one leading "+" is accepted
ParseU128(chars) ==
  IF chars = <<>> THEN ParseError
  ELSE IF Len(chars) = 1 /\ Head(chars) \in {"+", "-"} THEN ParseError
  ELSE IF Head(chars) = "+" THEN ParseDigits(Tail(chars), U128(0))
  ELSE ParseDigits(chars, U128(0))

(***************************************************************************)
(* SCALE encoding.                                                         *)
(***************************************************************************)
\* little-endian bytes of a small natural number, n bytes wide
LEBytes(v, n) == [i \in 1..n |-> IF i <= 4 THEN (v \div (256 ^ (i - 1))) % 256 ELSE 0]

\* big-endian bytes of a small natural number, n bytes wide (to_be_bytes)
BEBytes(v, n) == [i \in 1..n |-> LEBytes(v, n)[n + 1 - i]]

\* Compact<T> of a value below 2^31: one, two or four bytes whose two low
\* bits tell the length, or the byte 3 and four bytes
CompactEncode(v) ==
  IF v < 64 THEN <<v * 4>>
  ELSE IF v < 16384 THEN <<(v % 64) * 4 + 1>> \o LEBytes(v \div 64, 1)
  ELSE IF v < 1073741824 THEN <<(v % 64) * 4 + 2>> \o LEBytes(v \div 64, 3)
  ELSE <<3>> \o LEBytes(v, 4)

(***************************************************************************)
(* Conviction and the vote call.                                           *)
(***************************************************************************)
LOCK1X == 129
LOCK2X == 130
LOCK3X == 131
LOCK4X == 132
LOCK5X == 133
LOCK6X == 134

Conviction == {"Lock1X", "Lock2X", "Lock3X", "Lock4X", "Lock5X", "Lock6X"}

\* a faulty to_value: the conviction without the aye bit
to_value_without_aye(conviction) ==
  CASE conviction = "Lock1X" -> 1
    [] conviction = "Lock2X" -> 2
    [] conviction = "Lock3X" -> 3
    [] conviction = "Lock4X" -> 4
    [] conviction = "Lock5X" -> 5
    [] conviction = "Lock6X" -> 6

\* Conviction::to_value
to_value(conviction) ==
  CASE conviction = "Lock1X" -> LOCK1X
    [] conviction = "Lock2X" -> LOCK2X
    [] conviction = "Lock3X" -> LOCK3X
    [] conviction = "Lock4X" -> LOCK4X
    [] conviction = "Lock5X" -> LOCK5X
    [] conviction = "Lock6X" -> LOCK6X

\* the referendum voted on
ReferendumIndex == 275

\* 1000000000000 as a little-endian number (0xE8D4A51000)
UnitScale == <<0, 16, 165, 212, 232>>

\* balance * 1000000000000, exactly
ExactScaled(balance) == BigMul(balance, UnitScale)

\* node_runtime::tx().conviction_voting().vote(275, AccountVote::Standard {..})
\* with the scaled balance already computed
VoteCall(vote, scaled) ==
  [poll_index |-> ReferendumIndex, vote |-> vote, balance |-> scaled]

\* index of pallet ConvictionVoting and of its call `vote` in the Kusama
\* metadata the node_runtime module is generated from
ConvictionVotingPallet == 20
VoteCallIndex == 0
\* variant index of AccountVote::Standard
StandardVariant == 0

\* encode_call_data: pallet index, call index, Compact(poll_index), the
\* AccountVote variant, the Vote byte, the balance as 16 little-endian bytes
EncodeCallData(call) ==
  <<ConvictionVotingPallet, VoteCallIndex>> \o CompactEncode(call.poll_index)
    \o <<StandardVariant, call.vote>> \o call.balance

\* index of pallet System and of its call `remark`
SystemPallet == 0
RemarkCallIndex == 0

\* the characters of the remark texts of the model as UTF-8 bytes
Utf8(c) == CASE c = "H" -> 72 [] c = "i" -> 105 [] OTHER -> 63

\* encode_call_data of system().remark(message.as_bytes().to_vec())
EncodeRemark(text) ==
  <<SystemPallet, RemarkCallIndex>> \o CompactEncode(Len(text))
    \o [i \in 1..Len(text) |-> Utf8(text[i])]

(***************************************************************************)
(* The external collaborators' data: accounts, clients, signatures.        *)
(***************************************************************************)
\* Option: None or Some(value)
None == [some |-> FALSE]
Some(value) == [some |-> TRUE, value |-> value]

Alice == [name |-> "Alice", source |-> "polkadot-js", ty |-> "sr25519",
          address |-> "5GrwvaEF5zXb26Fz9rcQpDWS57CtERHpNehXCPcNoHGKutQY"]
Bob   == [name |-> "Bob", source |-> "talisman", ty |-> "ed25519",
          address |-> "5FHneW46xGXgs5mUiveU4sbTyGBzmstUspZC92UhjJM694ty"]
\* an account whose address is no SS58 address
Eve   == [name |-> "Eve", source |-> "talisman", ty |-> "sr25519",
          address |-> "not-an-address"]

\* the lists the signer extension may answer getAccounts with
AccountLists == {<<>>, <<Alice, Bob>>, <<Eve>>}

AccountIdLen == 32

\* AccountId32::from_str: the 32-byte public key of an SS58 address, or an error
ParseAccountId(address) ==
  CASE address = Alice.address -> Ok(Rep(AccountIdLen, 212))
    [] address = Bob.address -> Ok(Rep(AccountIdLen, 142))
    [] OTHER -> Err("PublicError")

\* the chain client: the facts of the connected chain
KusamaClient ==
  [genesis_hash |-> Rep(32, 176),
   spec_version |-> 9430,
   transaction_version |-> 23,
   signed_extensions |-> <<"CheckNonZeroSender", "CheckSpecVersion", "CheckTxVersion",
                           "CheckGenesis", "CheckMortality", "CheckNonce",
                           "CheckWeight", "ChargeTransactionPayment">>]

Clients == {KusamaClient}

\* the account nonces the chain may report
Nonces == {5}

SignatureLen == 64
EcdsaSignatureLen == 65

\* variant indices of MultiSignature
Ed25519Variant == 0
Sr25519Variant == 1
EcdsaVariant == 2

DecodeError == Err("DecodeError")

\* MultiSignature::decode: a variant byte, then 64 (ed25519, sr25519) or 65
\* (ecdsa) bytes; bytes after the value are not looked at
DecodeMultiSignature(bytes) ==
  IF bytes = <<>> THEN DecodeError
  ELSE LET need == IF Head(bytes) = EcdsaVariant THEN EcdsaSignatureLen ELSE SignatureLen
           scheme == CASE Head(bytes) = Ed25519Variant -> "ed25519"
                       [] Head(bytes) = Sr25519Variant -> "sr25519"
                       [] Head(bytes) = EcdsaVariant -> "ecdsa"
                       [] OTHER -> "none"
       IN IF scheme = "none" \/ Len(bytes) < 1 + need THEN DecodeError
          ELSE Ok([scheme |-> scheme, bytes |-> SubSeq(bytes, 2, 1 + need)])

\* MultiSignature::encode
EncodeMultiSignature(sig) ==
  <<CASE sig.scheme = "ed25519" -> Ed25519Variant
      [] sig.scheme = "sr25519" -> Sr25519Variant
      [] sig.scheme = "ecdsa" -> EcdsaVariant>> \o sig.bytes

HexError == Err("FromHexError")

\* hex::decode: an odd length or a character that is no hex digit is an error
HexDecode(chars) ==
  IF Len(chars) % 2 = 1 \/ \E i \in 1..Len(chars) : HexVal(chars[i]) < 0
  THEN HexError
  ELSE Ok([i \in 1..(Len(chars) \div 2) |->
             HexVal(chars[2 * i - 1]) * 16 + HexVal(chars[2 * i])])

(***************************************************************************)
(* The signed extrinsic.                                                   *)
(***************************************************************************)
\* version byte of a signed extrinsic of format 4
SignedV4 == 132
\* variant index of MultiAddress::Id
AddressIdVariant == 0
\* SCALE encoding of Era::Immortal
ImmortalEra == 0

\* create_partial_signed_with_nonce(call, nonce, Default::default()) followed by
\* sign_with_address_and_signature(account_id, signature); `req` is the identity
\* of the value (the signing request that built it)
SignedExtrinsic(req, call, nonce, account_id, signature) ==
  [req |-> req, call |-> call, nonce |-> nonce, address |-> account_id,
   signature |-> signature]

\* SubmittableExtrinsic::encoded
Encoded(ext) ==
  LET body == <<SignedV4, AddressIdVariant>> \o ext.address
                \o EncodeMultiSignature(ext.signature)
                \o <<ImmortalEra>> \o CompactEncode(ext.nonce) \o CompactEncode(0)
                \o EncodeCallData(ext.call)
  IN CompactEncode(Len(body)) \o body

(***************************************************************************)
(* The payload handed to the signer extension.                             *)
(***************************************************************************)
\* services.rs encode_then_hex, given the SCALE encoding of its input
encode_then_hex(encoded) == <<"0", "x">> \o HexEncode(encoded)

\* a faulty nonce field: the nonce SCALE encoded as a compact
PayloadNonceCompact(account_nonce) == encode_then_hex(CompactEncode(account_nonce))

\* line 89: the 8 big-endian bytes of the u64, as hex
PayloadNonce(account_nonce) == to_hex(BEBytes(account_nonce, 8))

\* a faulty checkpoint: the hash of no block
MortalityCheckpointZero(api) == encode_then_hex(Rep(32, 0))

\* line 92
MortalityCheckpoint(api) == encode_then_hex(api.genesis_hash)

\* a faulty payload: the name of the extension where the address belongs
ExtensionPayloadWrongAddress(call_data, api, account_nonce, account_source, account_address) ==
  [specVersion |-> to_hex(BEBytes(api.spec_version, 4)),
   transactionVersion |-> to_hex(BEBytes(api.transaction_version, 4)),
   address |-> account_source,
   blockHash |-> MortalityCheckpoint(api),
   blockNumber |-> <<"0", "x", "0", "0", "0", "0", "0", "0", "0", "0">>,
   era |-> encode_then_hex(<<ImmortalEra>>),
   genesisHash |-> encode_then_hex(api.genesis_hash),
   method |-> to_hex(call_data),
   nonce |-> PayloadNonce(account_nonce),
   signedExtensions |-> api.signed_extensions,
   tip |-> encode_then_hex(CompactEncode(0)),
   version |-> 4]

\* extension_signature_for_extrinsic, lines 85-117: the JSON object
ExtensionPayload(call_data, api, account_nonce, account_source, account_address) ==
  [specVersion |-> to_hex(BEBytes(api.spec_version, 4)),
   transactionVersion |-> to_hex(BEBytes(api.transaction_version, 4)),
   address |-> account_address,
   blockHash |-> MortalityCheckpoint(api),
   blockNumber |-> <<"0", "x", "0", "0", "0", "0", "0", "0", "0", "0">>,
   era |-> encode_then_hex(<<ImmortalEra>>),
   genesisHash |-> encode_then_hex(api.genesis_hash),
   method |-> to_hex(call_data),
   nonce |-> PayloadNonce(account_nonce),
   signedExtensions |-> api.signed_extensions,
   tip |-> encode_then_hex(CompactEncode(0)),
   version |-> 4]

(***************************************************************************)
(* State.                                                                  *)
(***************************************************************************)
VARIABLES
  message,            \* VoteComponent.message
  remark_call_bytes,  \* VoteComponent.remark_call_bytes
  conviction,         \* VoteComponent.conviction
  balance,            \* VoteComponent.balance (u128)
  vote_call_bytes,    \* VoteComponent.vote_call_bytes
  online_client,      \* VoteComponent.online_client: None or a client
  stage,              \* VoteComponent.stage (SigningStage)
  finalized_blocks,   \* VoteComponent.finalized_blocks
  tasks,              \* the futures handed to send_future that have not completed
  sent,               \* how many messages the user has sent
  submitted,          \* history: the extrinsics handed to submission, in order
  panicked            \* NoPanic, or the panic that aborted the program

component == <<message, remark_call_bytes, conviction, balance, vote_call_bytes,
               online_client, stage, finalized_blocks>>

vars == <<message, remark_call_bytes, conviction, balance, vote_call_bytes,
          online_client, stage, finalized_blocks, tasks, sent, submitted,
          panicked>>

NoPanic == "none"

\* SigningStage values
CreatingOnlineClient == [tag |-> "CreatingOnlineClient"]
EnterBalance == [tag |-> "EnterBalance"]
RequestingAccounts == [tag |-> "RequestingAccounts"]
StageError(text) == [tag |-> "Error", text |-> text]
SelectAccount(accounts) == [tag |-> "SelectAccount", accounts |-> accounts]
Signing(account) == [tag |-> "Signing", account |-> account]
SigningSuccess(account, signature, hex, submitting) ==
  [tag |-> "SigningSuccess", signer_account |-> account, signature |-> signature,
   signed_extrinsic_hex |-> hex, submitting_stage |-> submitting]

\* SubmittingStage values
Initial(ext) == [tag |-> "Initial", signed_extrinsic |-> ext]
Submitting == [tag |-> "Submitting"]
Success(event) == [tag |-> "Success", remark_event |-> event]
SubmittingError(err) == [tag |-> "Error", err |-> err]

\* VoteComponent::create: the fields, and the client-creation future
Init ==
  /\ message = <<>>
  /\ conviction = "Lock1X"
  /\ balance = U128(100)
  /\ stage = CreatingOnlineClient
  /\ online_client = None
  /\ remark_call_bytes = <<>>
  /\ vote_call_bytes = <<>>
  /\ finalized_blocks = <<>>
  /\ tasks = {[kind |-> "create_client", id |-> 0]}
  /\ sent = 0
  /\ submitted = <<>>
  /\ panicked = NoPanic

Running == panicked = NoPanic

\* the user sends one more message; a signing request and a submission are
\* named after the message that starts them
UserMessage == Running /\ sent < MaxUserMessages /\ sent' = sent + 1

\* a panic: the program is aborted where it stands
Panic(cause) == panicked' = cause

\* a name for one more task of a kind whose tasks nothing tells apart: the
\* least number no task of the kind in flight has
FreshId(kind) ==
  LET used == {t.id : t \in {u \in tasks : u.kind = kind}}
  IN CHOOSE n \in 1..(Cardinality(used) + 1) :
       n \notin used /\ \A m \in 1..(n - 1) : m \in used

(***************************************************************************)
(* Inputs of the user messages.                                            *)
(***************************************************************************)
U128MaxText ==
  <<"3","4","0","2","8","2","3","6","6","9","2","0","9","3","8","4","6","3","4","6",
    "3","3","7","4","6","0","7","4","3","1","7","6","8","2","1","1","4","5","5">>

\* the texts typed into the balance input
BalanceInputs == {<<"1">>, <<>>, <<"-", "1">>, <<"1", "x">>, U128MaxText,
                  U128MaxText \o <<"0">>}

\* balance.parse::<u128>() of each of these texts
Parsed == [text \in BalanceInputs |-> ParseU128(text)]

\* the values self.balance takes: those of create and of OnlineClientCreated,
\* the default of ChangeBalance and the texts that parse
Balances ==
  {U128(100), U128(1)} \cup {Parsed[text].value : text \in {x \in BalanceInputs : Parsed[x].ok}}

\* balance * 1000000000000 of each of these values, exactly
Scaled == [b \in Balances |-> ExactScaled(b)]

ConvictionInputs == {"Lock1X", "Lock6X"}

MessageInputs == {<<"H", "i">>}

\* the account indices SignWithAccount may carry
IndexInputs == 0..2

\* TRUE iff `balance * 1000000000000` overflows u128
ScaleOverflows(b) == ~FitsIn(Scaled[b], U128Len)

\* `balance * 1000000000000` as the u128 multiplication of a build without
\* overflow checks computes it: the product modulo 2^128
WrappingScaled(b) == Truncate(Scaled[b], U128Len)

(***************************************************************************)
(* VoteComponent::set_message and VoteComponent::set_vote.                 *)
(***************************************************************************)
set_message(text) ==
  IF ~online_client.some
  THEN /\ Panic("unwrap on None: online_client")
       /\ UNCHANGED <<remark_call_bytes, message>>
  ELSE /\ remark_call_bytes' = EncodeRemark(text)
       /\ message' = text
       /\ panicked' = NoPanic

\* `client` is self.online_client at the time of the call.  The multiplication
\* of line 52 comes first: when it overflows, a build with overflow checks
\* panics and a build without them goes on with the wrapped product.
set_vote(new_balance, new_conviction, client) ==
  \/ /\ ScaleOverflows(new_balance)
     /\ Panic("attempt to multiply with overflow")
     /\ UNCHANGED <<vote_call_bytes, balance, conviction>>
  \/ /\ ~client.some
     /\ Panic("unwrap on None: online_client")
     /\ UNCHANGED <<vote_call_bytes, balance, conviction>>
  \/ /\ client.some
     /\ vote_call_bytes' =
          EncodeCallData(VoteCall(to_value(new_conviction), WrappingScaled(new_balance)))
     /\ balance' = new_balance
     /\ conviction' = new_conviction
     /\ panicked' = NoPanic

(***************************************************************************)
(* update: the handlers of the messages that come from the user.           *)
(***************************************************************************)
ChangeMessage(text) ==
  /\ UserMessage
  /\ set_message(text)
  /\ UNCHANGED <<conviction, balance, vote_call_bytes, online_client, stage,
                 finalized_blocks, tasks, submitted>>

ChangeBalance(text) ==
  /\ UserMessage
  /\ LET parsed == Parsed[text]
         value == IF parsed.ok THEN parsed.value ELSE U128(100)
     IN set_vote(value, conviction, online_client)
  /\ UNCHANGED <<message, remark_call_bytes, online_client, stage, finalized_blocks,
                 tasks, submitted>>

ChangeConviction(c) ==
  /\ UserMessage
  /\ set_vote(balance, c, online_client)
  /\ UNCHANGED <<message, remark_call_bytes, online_client, stage, finalized_blocks,
                 tasks, submitted>>

RequestAccounts ==
  /\ UserMessage
  /\ stage' = RequestingAccounts
  /\ tasks' = tasks \cup {[kind |-> "get_accounts", id |-> FreshId("get_accounts")]}
  /\ UNCHANGED <<message, remark_call_bytes, conviction, balance, vote_call_bytes,
                 online_client, finalized_blocks, submitted, panicked>>

\* the future of lines 240-284 as it is started: it owns the account, the
\* account id, the vote call and a clone of the client
SignTask(id, account, account_id, vote_call, api) ==
  [kind |-> "sign", id |-> id, pc |-> "account_nonce", account |-> account,
   account_id |-> account_id, vote_call |-> vote_call, api |-> api, nonce |-> 0]

\* a faulty accounts.get(i): an index out of range yields a default account
GetAccountOrDefault(accounts, i) ==
  IF i < Len(accounts) THEN Some(accounts[i + 1]) ELSE Some(Alice)

\* accounts.get(i) of a Vec: the element at index i (from 0), or None
GetAccount(accounts, i) ==
  IF i < Len(accounts) THEN Some(accounts[i + 1]) ELSE None

SignWithAccount(i) ==
  /\ UserMessage
  /\ IF stage.tag = "SelectAccount"
     THEN IF ~GetAccount(stage.accounts, i).some
          THEN \* accounts.get(i).unwrap()
               /\ Panic("unwrap on None: accounts.get(i)")
               /\ UNCHANGED <<stage, tasks>>
          ELSE LET account == GetAccount(stage.accounts, i).value
                   account_id == ParseAccountId(account.address)
               IN IF ~account_id.ok
                  THEN \* account_address.parse().unwrap()
                       /\ Panic("unwrap on Err: account_address.parse()")
                       /\ UNCHANGED <<stage, tasks>>
                  ELSE /\ stage' = Signing(account)
                       /\ \/ /\ ScaleOverflows(balance)
                             /\ Panic("attempt to multiply with overflow")
                             /\ UNCHANGED tasks
                          \/ /\ ~online_client.some
                             /\ Panic("unwrap on None: online_client")
                             /\ UNCHANGED tasks
                          \/ /\ online_client.some
                             /\ tasks' = tasks \cup
                                  {SignTask(sent', account, account_id.value,
                                            VoteCall(to_value(conviction),
                                                     WrappingScaled(balance)),
                                            online_client.value)}
                             /\ panicked' = NoPanic
     ELSE UNCHANGED <<stage, tasks, panicked>>
  /\ UNCHANGED <<message, remark_call_bytes, conviction, balance, vote_call_bytes,
                 online_client, finalized_blocks, submitted>>

\* a faulty SubmitSigned: after a failed submission the button starts over
SubmitSignedAfterError ==
  /\ UserMessage
  /\ IF stage.tag = "SigningSuccess" /\ stage.submitting_stage.tag = "Initial"
     THEN LET signed_extrinsic == stage.submitting_stage.signed_extrinsic
          IN /\ stage' = [stage EXCEPT !.submitting_stage = Submitting]
             /\ tasks' = tasks \cup {[kind |-> "submit", id |-> sent',
                                      extrinsic |-> signed_extrinsic]}
             /\ submitted' = Append(submitted, signed_extrinsic.req)
     ELSE IF stage.tag = "SigningSuccess" /\ stage.submitting_stage.tag = "Error"
     THEN /\ stage' = [stage EXCEPT !.submitting_stage = Submitting]
          /\ UNCHANGED <<tasks, submitted>>
     ELSE UNCHANGED <<stage, tasks, submitted>>
  /\ UNCHANGED <<message, remark_call_bytes, conviction, balance, vote_call_bytes,
                 online_client, finalized_blocks, panicked>>

\* a faulty SubmitSigned: the extrinsic is cloned into the future and the
\* submitting stage is left at Initial
SubmitSignedKeepsInitial ==
  /\ UserMessage
  /\ IF stage.tag = "SigningSuccess" /\ stage.submitting_stage.tag = "Initial"
     THEN LET signed_extrinsic == stage.submitting_stage.signed_extrinsic
          IN /\ tasks' = tasks \cup {[kind |-> "submit", id |-> sent',
                                      extrinsic |-> signed_extrinsic]}
             /\ submitted' = Append(submitted, signed_extrinsic.req)
             /\ UNCHANGED stage
     ELSE UNCHANGED <<stage, tasks, submitted>>
  /\ UNCHANGED <<message, remark_call_bytes, conviction, balance, vote_call_bytes,
                 online_client, finalized_blocks, panicked>>

\* std::mem::replace moves the extrinsic out of the stage and into the future
SubmitSigned ==
  /\ UserMessage
  /\ IF stage.tag = "SigningSuccess" /\ stage.submitting_stage.tag = "Initial"
     THEN LET signed_extrinsic == stage.submitting_stage.signed_extrinsic
          IN /\ stage' = [stage EXCEPT !.submitting_stage = Submitting]
             /\ tasks' = tasks \cup {[kind |-> "submit", id |-> sent',
                                      extrinsic |-> signed_extrinsic]}
             /\ submitted' = Append(submitted, signed_extrinsic.req)
     ELSE UNCHANGED <<stage, tasks, submitted>>
  /\ UNCHANGED <<message, remark_call_bytes, conviction, balance, vote_call_bytes,
                 online_client, finalized_blocks, panicked>>

SubscribeFinalizedBlock ==
  /\ UserMessage
  /\ tasks' = tasks \cup {[kind |-> "subscribe", id |-> FreshId("subscribe")]}
  /\ UNCHANGED <<component, submitted, panicked>>

(***************************************************************************)
(* update: the handlers of the messages the tasks deliver.  `rest` is the  *)
(* set of tasks still running once the message has been delivered.         *)
(***************************************************************************)
\* a faulty OnlineClientCreated: the intent stays what create set
OnlineClientCreatedKeepsIntent(client, rest) ==
  /\ online_client' = Some(client)
  /\ stage' = EnterBalance
  /\ set_vote(balance, conviction, Some(client))
  /\ tasks' = rest
  /\ UNCHANGED <<message, remark_call_bytes, finalized_blocks, sent, submitted>>

OnlineClientCreated(client, rest) ==
  /\ online_client' = Some(client)
  /\ stage' = EnterBalance
  /\ set_vote(U128(1), "Lock1X", Some(client))
  /\ tasks' = rest
  /\ UNCHANGED <<message, remark_call_bytes, finalized_blocks, sent, submitted>>

ReceivedAccounts(accounts, rest) ==
  /\ stage' = SelectAccount(accounts)
  /\ tasks' = rest
  /\ UNCHANGED <<message, remark_call_bytes, conviction, balance, vote_call_bytes,
                 online_client, finalized_blocks, sent, submitted, panicked>>

\* a faulty Error handler: the intent goes back to what create set
ErrorResetsIntent(text, rest) ==
  /\ stage' = StageError(text)
  /\ balance' = U128(100)
  /\ conviction' = "Lock1X"
  /\ tasks' = rest
  /\ UNCHANGED <<message, remark_call_bytes, vote_call_bytes, online_client,
                 finalized_blocks, sent, submitted, panicked>>

Error(text, rest) ==
  /\ stage' = StageError(text)
  /\ tasks' = rest
  /\ UNCHANGED <<message, remark_call_bytes, conviction, balance, vote_call_bytes,
                 online_client, finalized_blocks, sent, submitted, panicked>>

\* a faulty ReceivedSignature: the signature is taken in every stage, for the
\* account of the Signing stage or else for the first account known
ReceivedSignatureAnyStage(signature, signed_extrinsic, rest) ==
  /\ stage' = SigningSuccess(IF stage.tag = "Signing" THEN stage.account ELSE Alice,
                             signature, to_hex(Encoded(signed_extrinsic)),
                             Initial(signed_extrinsic))
  /\ tasks' = rest
  /\ UNCHANGED <<message, remark_call_bytes, conviction, balance, vote_call_bytes,
                 online_client, finalized_blocks, sent, submitted, panicked>>

ReceivedSignature(signature, signed_extrinsic, rest) ==
  /\ IF stage.tag = "Signing"
     THEN stage' = SigningSuccess(stage.account, signature,
                                  to_hex(Encoded(signed_extrinsic)),
                                  Initial(signed_extrinsic))
     ELSE UNCHANGED stage
  /\ tasks' = rest
  /\ UNCHANGED <<message, remark_call_bytes, conviction, balance, vote_call_bytes,
                 online_client, finalized_blocks, sent, submitted, panicked>>

ExtrinsicFinalized(remark_event, rest) ==
  /\ IF stage.tag = "SigningSuccess"
     THEN stage' = [stage EXCEPT !.submitting_stage = Success(remark_event)]
     ELSE UNCHANGED stage
  /\ tasks' = rest
  /\ UNCHANGED <<message, remark_call_bytes, conviction, balance, vote_call_bytes,
                 online_client, finalized_blocks, sent, submitted, panicked>>

ExtrinsicFailed(err, rest) ==
  /\ IF stage.tag = "SigningSuccess"
     THEN stage' = [stage EXCEPT !.submitting_stage = SubmittingError(err)]
     ELSE UNCHANGED stage
  /\ tasks' = rest
  /\ UNCHANGED <<message, remark_call_bytes, conviction, balance, vote_call_bytes,
                 online_client, finalized_blocks, sent, submitted, panicked>>

\* finalized_blocks.insert(0, block); truncate(1) when longer than 1
PushFinalizedBlock(block_attr, rest) ==
  /\ LET inserted == <<block_attr>> \o finalized_blocks
     IN finalized_blocks' = IF Len(inserted) > 1 THEN SubSeq(inserted, 1, 1) ELSE inserted
  /\ tasks' = rest
  /\ UNCHANGED <<message, remark_call_bytes, conviction, balance, vote_call_bytes,
                 online_client, stage, sent, submitted, panicked>>

(***************************************************************************)
(* The tasks: what each future does between its start and the one message  *)
(* it delivers.  `t` is the task that takes the step; what the outside     *)
(* world answers is the second parameter.                                  *)
(***************************************************************************)
\* what OnlineClient::from_url may answer
ClientResults == {Ok(client) : client \in Clients} \cup {Err("Rpc error")}

\* the future of create: OnlineClient::from_url(..) mapped to a message
CreateClientDone(t, result) ==
  /\ t.kind = "create_client"
  /\ IF result.ok
     THEN OnlineClientCreated(result.value, tasks \ {t})
     ELSE Error("Online Client could not be created. Make sure you have a local node running",
                tasks \ {t})

CreateClientFuture ==
  /\ Running
  /\ \E t \in tasks : \E result \in ClientResults : CreateClientDone(t, result)

\* what services::get_accounts may answer
AccountResults ==
  {Ok(accounts) : accounts \in AccountLists}
    \cup {Err("Error converting JsValue into String")}

\* the future of RequestAccounts: get_accounts() mapped to a message
GetAccountsDone(t, result) ==
  /\ t.kind = "get_accounts"
  /\ IF result.ok
     THEN ReceivedAccounts(result.value, tasks \ {t})
     ELSE Error(result.error, tasks \ {t})

GetAccountsFuture ==
  /\ Running
  /\ \E t \in tasks : \E result \in AccountResults : GetAccountsDone(t, result)

\* what api.tx().account_nonce(..) may answer
NonceResults == {Ok(n) : n \in Nonces} \cup {Err("Rpc error")}

\* a faulty signing future: after a failed nonce fetch it reports the error and
\* goes on to fetch the nonce again
SigningNonceStepRetries(t, result) ==
  /\ t.kind = "sign" /\ t.pc = "account_nonce"
  /\ IF result.ok
     THEN /\ tasks' = (tasks \ {t}) \cup
                        {[t EXCEPT !.pc = "signature", !.nonce = result.value]}
          /\ UNCHANGED <<component, sent, submitted, panicked>>
     ELSE Error("Fetching account nonce failed", tasks)

\* the signing future up to its first await: api.tx().account_nonce(..)
SigningNonceStep(t, result) ==
  /\ t.kind = "sign" /\ t.pc = "account_nonce"
  /\ IF result.ok
     THEN /\ tasks' = (tasks \ {t}) \cup
                        {[t EXCEPT !.pc = "signature", !.nonce = result.value]}
          /\ UNCHANGED <<component, sent, submitted, panicked>>
     ELSE Error("Fetching account nonce failed", tasks \ {t})

SigningFutureNonce ==
  /\ Running
  /\ \E t \in tasks : \E result \in NonceResults : SigningNonceStep(t, result)

\* what a signing task past its nonce hands to js_sign_payload (vote.rs lines
\* 245-255, services.rs line 120): the payload, the extension and the address
SignerRequest(t) ==
  [payload |-> ExtensionPayload(EncodeCallData(t.vote_call), t.api, t.nonce,
                                t.account.source, t.account.address),
   source |-> t.account.source,
   address |-> t.account.address]

\* what the promise of signPayload may settle with
Sr25519Answer == to_hex(<<Sr25519Variant>> \o Rep(SignatureLen, 170))

\* a text that does not start with 0x and whose characters after the second
\* are the hex of a signature
NoPrefixAnswer == <<"z", "z">> \o HexEncode(<<Sr25519Variant>> \o Rep(SignatureLen, 170))

\* the promise is rejected because the user refused to sign in the extension
Refusal == [kind |-> "rejected", reason |-> "Cancelled"]

\* the promise is rejected because the extension could not be reached
TransportFailure == [kind |-> "rejected", reason |-> "Extension not reachable"]

SignerResponses ==
  {Refusal, TransportFailure, [kind |-> "not_a_string"]}
    \cup {[kind |-> "string", text |-> x] :
            x \in {Sr25519Answer, NoPrefixAnswer, <<>>, <<"0">>, <<"0", "x">>,
                   <<"0", "x", "z", "z">>, <<"0", "x", "0", "7">>}}

SlicePanic == Err("panic: byte index 2 is out of bounds")

\* the end of services::extension_signature_for_extrinsic, lines 120-127: the
\* bytes of the signature, an error, or the panic of `&signature[2..]`
ExtensionSignature(response) ==
  IF response.kind = "rejected" THEN Err(response.reason)
  ELSE IF response.kind = "not_a_string" THEN Err("Error converting JsValue into String")
  ELSE IF Len(response.text) < 2 THEN SlicePanic
  ELSE HexDecode(SubSeq(response.text, 3, Len(response.text)))

\* what the task gets for each of these answers, computed once: the result of
\* extension_signature_for_extrinsic, and MultiSignature::decode of its bytes
SignerAnswer == [response \in SignerResponses |-> ExtensionSignature(response)]

DecodedAnswer ==
  [response \in SignerResponses |->
     IF SignerAnswer[response].ok
     THEN DecodeMultiSignature(SignerAnswer[response].value)
     ELSE DecodeError]

\* the signing future after the nonce, lines 245-283: the signature of the
\* extension, its decoding, the partial extrinsic, the signed extrinsic
SigningSignatureStep(t, response) ==
  /\ t.kind = "sign" /\ t.pc = "signature"
  /\ LET result == SignerAnswer[response]
         rest == tasks \ {t}
     IN IF result = SlicePanic
        THEN /\ Panic("byte index 2 is out of bounds")
             /\ UNCHANGED <<component, tasks, sent, submitted>>
        ELSE IF ~result.ok
        THEN Error("Signing via extension failed", rest)
        ELSE LET multi_signature == DecodedAnswer[response]
             IN IF ~multi_signature.ok
                THEN Error("MultiSignature Decoding", rest)
                ELSE ReceivedSignature(
                       multi_signature.value,
                       SignedExtrinsic(t.id, t.vote_call, t.nonce, t.account_id,
                                       multi_signature.value),
                       rest)

SigningFutureSignature ==
  /\ Running
  /\ \E t \in tasks : \E response \in SignerResponses : SigningSignatureStep(t, response)

\* what a submission may observe
FinalizedEvents ==
  {<<>>, <<"Balances.Withdraw">>, <<"Balances.Withdraw", "System.ExtrinsicSuccess">>,
   <<"Balances.Withdraw", "System.ExtrinsicFailed">>}

SubmissionOutcomes ==
  {[at |-> "submit_and_watch", events |-> <<>>]}
    \cup {[at |-> "finalized", events |-> e] : e \in FinalizedEvents}

HasEvent(events, name) == \E i \in 1..Len(events) : events[i] = name

\* a faulty submission: a finalized extrinsic that did not fail counts as a
\* success without a look at its events
FinalizedIsSuccess(outcome) ==
  IF outcome.at = "submit_and_watch" THEN Err("Rpc error")
  ELSE IF HasEvent(outcome.events, "System.ExtrinsicFailed") THEN Err("Dispatch error")
  ELSE Ok("System.ExtrinsicSuccess")

\* submit_wait_finalized_and_get_extrinsic_success_event: submit_and_watch may
\* fail, wait_for_finalized_success fails on an ExtrinsicFailed event, and
\* find_first looks for ExtrinsicSuccess among the events
submit_wait_finalized_and_get_extrinsic_success_event(outcome) ==
  IF outcome.at = "submit_and_watch" THEN Err("Rpc error")
  ELSE IF HasEvent(outcome.events, "System.ExtrinsicFailed") THEN Err("Dispatch error")
  ELSE IF HasEvent(outcome.events, "System.ExtrinsicSuccess")
  THEN Ok("System.ExtrinsicSuccess")
  ELSE Err("ExtrinsicSuccess not found in events")

\* the future of SubmitSigned, lines 311-320
SubmitDone(t, outcome) ==
  /\ t.kind = "submit"
  /\ LET result == submit_wait_finalized_and_get_extrinsic_success_event(outcome)
     IN IF result.ok
        THEN ExtrinsicFinalized(result.value, tasks \ {t})
        ELSE ExtrinsicFailed(result.error, tasks \ {t})

SubmitFuture ==
  /\ Running
  /\ \E t \in tasks : \E outcome \in SubmissionOutcomes : SubmitDone(t, outcome)

BlockInputs == {"Block #1"}

\* what a finalized-block subscription may do next
SubscriptionEvents ==
  {[kind |-> "block", block |-> b] : b \in BlockInputs}
    \cup {[kind |-> "error", block |-> ""], [kind |-> "end", block |-> ""]}

\* the future of SubscribeFinalizedBlock: services::subscribe_to_finalized_blocks
\* emits PushFinalizedBlock per block; its result goes through unwrap_err,
\* which panics when the stream has ended without an error
SubscribeStep(t, event) ==
  /\ t.kind = "subscribe"
  /\ IF event.kind = "block" THEN PushFinalizedBlock(event.block, tasks)
     ELSE IF event.kind = "error" THEN Error("Rpc error", tasks \ {t})
     ELSE /\ Panic("unwrap_err on Ok")
          /\ UNCHANGED <<component, tasks, sent, submitted>>

SubscribeFuture ==
  /\ Running
  /\ \E t \in tasks : \E event \in SubscriptionEvents : SubscribeStep(t, event)

(***************************************************************************)
(* The specification.                                                      *)
(***************************************************************************)
Next ==
  \/ \E text \in MessageInputs : ChangeMessage(text)
  \/ \E text \in BalanceInputs : ChangeBalance(text)
  \/ \E c \in ConvictionInputs : ChangeConviction(c)
  \/ RequestAccounts
  \/ \E i \in IndexInputs : SignWithAccount(i)
  \/ SubmitSigned
  \/ SubscribeFinalizedBlock
  \/ CreateClientFuture
  \/ GetAccountsFuture
  \/ SigningFutureNonce
  \/ SigningFutureSignature
  \/ SubmitFuture
  \/ SubscribeFuture

Spec == Init /\ [][Next]_vars

(***************************************************************************)
(* The session from the choice of the account on: the client exists, the   *)
(* accounts have been listed, and the messages of the user are counted     *)
(* from here.                                                              *)
(***************************************************************************)
SelectInit ==
  /\ message = <<>>
  /\ remark_call_bytes = <<>>
  /\ conviction = "Lock1X"
  /\ balance = U128(1)
  /\ vote_call_bytes = EncodeCallData(VoteCall(to_value("Lock1X"), WrappingScaled(U128(1))))
  /\ online_client = Some(KusamaClient)
  /\ stage = SelectAccount(<<Alice, Bob>>)
  /\ finalized_blocks = <<>>
  /\ tasks = {}
  /\ sent = 0
  /\ submitted = <<>>
  /\ panicked = NoPanic

\* every step of Next but the creation of the client, which is over
FlowNext ==
  \/ \E text \in MessageInputs : ChangeMessage(text)
  \/ \E text \in BalanceInputs : ChangeBalance(text)
  \/ \E c \in ConvictionInputs : ChangeConviction(c)
  \/ RequestAccounts
  \/ \E i \in IndexInputs : SignWithAccount(i)
  \/ SubmitSigned
  \/ SubscribeFinalizedBlock
  \/ GetAccountsFuture
  \/ SigningFutureNonce
  \/ SigningFutureSignature
  \/ SubmitFuture
  \/ SubscribeFuture

FlowSpec == SelectInit /\ [][FlowNext]_vars

(***************************************************************************)
(* The signing task alone, over more inputs: it starts where                *)
(* SignWithAccount has just started it, for each account, intent and        *)
(* runtime version, and the chain answers with nonces of every size.        *)
(***************************************************************************)
\* the chain after a runtime upgrade
UpgradedKusamaClient ==
  [KusamaClient EXCEPT !.spec_version = 1000000, !.transaction_version = 255]

PayloadClients == {KusamaClient, UpgradedKusamaClient}

PayloadAccounts == {Alice, Bob}

PayloadBalances == {U128(1), U128(100)}

\* account nonces (u64)
NonceInputs == {0, 5, 255, 256, 65535, 16777216, 2147483647}

PayloadInit ==
  \E client \in PayloadClients, account \in PayloadAccounts,
     b \in PayloadBalances, c \in ConvictionInputs :
    /\ message = <<>>
    /\ remark_call_bytes = <<>>
    /\ conviction = c
    /\ balance = b
    /\ vote_call_bytes = EncodeCallData(VoteCall(to_value(c), WrappingScaled(b)))
    /\ online_client = Some(client)
    /\ stage = Signing(account)
    /\ finalized_blocks = <<>>
    /\ tasks = {SignTask(1, account, ParseAccountId(account.address).value,
                         VoteCall(to_value(c), WrappingScaled(b)), client)}
    /\ sent = 1
    /\ submitted = <<>>
    /\ panicked = NoPanic

PayloadNonceFuture ==
  /\ Running
  /\ \E t \in tasks : \E n \in NonceInputs : SigningNonceStep(t, Ok(n))

PayloadNext ==
  \/ PayloadNonceFuture
  \/ SigningFutureSignature

PayloadSpec == PayloadInit /\ [][PayloadNext]_vars

(***************************************************************************)
(* Stale completions.                                                      *)
(***************************************************************************)
\* C1: a ReceivedSignature delivered by the signing request t changes the
\* stage only when the session is in the Signing state that t's request
\* entered: the stage is Signing of t's account, and no later signing request
\* is in flight.
C1_StalenessRejection ==
  [][\A t \in tasks : \A response \in SignerResponses :
       (SigningSignatureStep(t, response)
          /\ stage' # stage /\ stage'.tag = "SigningSuccess")
         => /\ stage = Signing(t.account)
            /\ \A u \in tasks : u.kind = "sign" => u.id <= t.id]_vars

\* C2: a list of accounts delivered by get_accounts makes the stage
\* SelectAccount(list) when the stage is RequestingAccounts, and leaves the
\* stage as it is in every other stage.
C2_AccountsOnlyWhenRequesting ==
  [][\A t \in tasks : \A result \in AccountResults :
       (result.ok /\ GetAccountsDone(t, result))
         => IF stage.tag = "RequestingAccounts"
            THEN stage' = SelectAccount(result.value)
            ELSE stage' = stage]_vars

(***************************************************************************)
(* Submission.                                                             *)
(***************************************************************************)
\* C3: no signed extrinsic is handed to a submission twice, and an extrinsic
\* that has been handed to a submission is never again the one held in the
\* submitting stage Initial.
C3_SingleShotSubmission ==
  /\ \A i, j \in 1..Len(submitted) : submitted[i] = submitted[j] => i = j
  /\ (stage.tag = "SigningSuccess" /\ stage.submitting_stage.tag = "Initial")
       => \A i \in 1..Len(submitted) :
            submitted[i] # stage.submitting_stage.signed_extrinsic.req

\* C3: an extrinsic has been submitted, the submitting stage has left Initial,
\* and the user has sent one more message since.
C3_Witness ==
  /\ Len(submitted) = 1
  /\ stage.tag = "SigningSuccess" /\ stage.submitting_stage.tag = "Submitting"
  /\ sent = MaxUserMessages

\* C5: a submission that is finalized without an ExtrinsicSuccess event
\* reports a failure and makes the submitting stage Error; the submitting stage
\* becomes Success only by a submission whose events hold ExtrinsicSuccess.
C5_FinalizedIsNotSuccess ==
  [][/\ \A t \in tasks : \A outcome \in SubmissionOutcomes :
          (/\ SubmitDone(t, outcome)
           /\ outcome.at = "finalized"
           /\ ~HasEvent(outcome.events, "System.ExtrinsicSuccess"))
            => /\ ~submit_wait_finalized_and_get_extrinsic_success_event(outcome).ok
               /\ stage.tag = "SigningSuccess"
                    => stage'.submitting_stage.tag = "Error"
     /\ (/\ stage'.tag = "SigningSuccess"
         /\ stage'.submitting_stage.tag = "Success"
         /\ stage' # stage)
          => \E t \in tasks : \E outcome \in SubmissionOutcomes :
               /\ SubmitDone(t, outcome)
               /\ HasEvent(outcome.events, "System.ExtrinsicSuccess")]_vars

\* C5: a finalized submission without the event has made the submitting stage
\* Error.
C5_Witness ==
  /\ stage.tag = "SigningSuccess"
  /\ stage.submitting_stage.tag = "Error"
  /\ stage.submitting_stage.err = "ExtrinsicSuccess not found in events"

(***************************************************************************)
(* Signing.                                                                *)
(***************************************************************************)
\* C4: in SelectAccount(list), SignWithAccount(i) with i not below the length
\* of the list changes neither the stage nor the balance, the conviction or the
\* cached call data, starts no task, and aborts.
C4_BoundsCheck ==
  [][\A i \in IndexInputs :
       (/\ stage.tag = "SelectAccount"
        /\ i >= Len(stage.accounts)
        /\ SignWithAccount(i))
         => /\ UNCHANGED <<stage, balance, conviction, vote_call_bytes, tasks>>
            /\ panicked' # NoPanic]_vars

\* C4: an index out of range has been refused in SelectAccount.
C4_Witness ==
  /\ panicked = "unwrap on None: accounts.get(i)"
  /\ stage.tag = "SelectAccount"

\* C6: when the signer answers with a signature of another scheme than the
\* key type of the account the request was made for, the stage becomes Error
\* and balance and conviction stay as they are.
C6_SchemeMismatchRejected ==
  [][\A t \in tasks : \A response \in SignerResponses :
       LET result == SignerAnswer[response]
           multi_signature == DecodedAnswer[response]
       IN (/\ SigningSignatureStep(t, response)
           /\ result.ok
           /\ multi_signature.ok
           /\ multi_signature.value.scheme # t.account.ty)
            => /\ stage'.tag = "Error"
               /\ UNCHANGED <<balance, conviction>>]_vars

(***************************************************************************)
(* Errors.                                                                 *)
(***************************************************************************)
\* C7: a step that puts the stage into Error changes nothing but the stage:
\* balance, conviction, the cached call data and the other fields stay.
C7_ErrorPreservesIntent ==
  [][(stage'.tag = "Error" /\ stage' # stage)
       => UNCHANGED <<balance, conviction, vote_call_bytes, message,
                      remark_call_bytes, online_client, finalized_blocks>>]_vars

\* C7: the signing task has failed, and the conviction the user chose before
\* is still there.
C7_Witness ==
  /\ stage = StageError("Signing via extension failed")
  /\ conviction = "Lock6X"

\* C8: the stage leaves Error only in a step that processes a message of the
\* user.
C8_ErrorIsTerminal ==
  [][(stage.tag = "Error" /\ stage'.tag # "Error") => sent' = sent + 1]_vars

(***************************************************************************)
(* The client and the cached call data.                                    *)
(***************************************************************************)
\* C9: no handler dereferences online_client while it is None.
C9_ClientExistsWhenDereferenced == panicked # "unwrap on None: online_client"

\* C10: once the client exists, vote_call_bytes is the encoding of the vote
\* call for referendum 275, the current conviction and the current balance
\* times 10^12.
C10_CachedCallData ==
  online_client.some
    => /\ FitsIn(Scaled[balance], U128Len)
       /\ vote_call_bytes =
            EncodeCallData(VoteCall(to_value(conviction),
                                    Truncate(Scaled[balance], U128Len)))

(***************************************************************************)
(* External calls.  Each task in `tasks` is one external call that has not *)
(* answered yet: get_accounts, account_nonce, signPayload (a signing task  *)
(* past its nonce), submit_and_watch.                                      *)
(***************************************************************************)
\* C11: a message of the user starts at most one task and ends none; a step
\* that processes no message of the user starts no call but the signPayload
\* that follows the nonce of the same signing request; and a call that has
\* answered, with a failure or not, is not in flight afterwards.
C11_NoAutomaticRetry ==
  [][/\ sent' # sent => (tasks \subseteq tasks' /\ Cardinality(tasks' \ tasks) <= 1)
     /\ sent' = sent =>
          \A u \in tasks' \ tasks :
            \E t \in tasks \ tasks' :
              /\ t.kind = "sign" /\ t.pc = "account_nonce"
              /\ u.kind = "sign" /\ u.pc = "signature" /\ u.id = t.id
     /\ \A t \in tasks :
          /\ \A result \in AccountResults : GetAccountsDone(t, result) => t \notin tasks'
          /\ \A result \in NonceResults : SigningNonceStep(t, result) => t \notin tasks'
          /\ \A response \in SignerResponses :
               (SigningSignatureStep(t, response) /\ panicked' = NoPanic)
                 => tasks' = tasks \ {t}
          /\ \A outcome \in SubmissionOutcomes :
               SubmitDone(t, outcome) => tasks' = tasks \ {t}]_vars

\* C11: the nonce fetch of a signing request has failed and no call is in
\* flight.
C11_Witness ==
  /\ stage = StageError("Fetching account nonce failed")
  /\ tasks = {}

(***************************************************************************)
(* What the signer answers.                                                *)
(***************************************************************************)
\* C12: the state a refusal of the user leads to is an Error stage that
\* differs from the state a transport failure of the same request leads to,
\* and its text differs from that of a failed nonce fetch.
C12_RefusalDistinguished ==
  [][\A t \in tasks :
       SigningSignatureStep(t, Refusal)
         => /\ stage'.tag = "Error"
            /\ ~SigningSignatureStep(t, TransportFailure)
            /\ stage'.text # "Fetching account nonce failed"]_vars

\* TRUE iff the text is 0x followed by the hex of a MultiSignature
WellFormedSignature(text) ==
  /\ Len(text) >= 2
  /\ text[1] = "0" /\ text[2] = "x"
  /\ HexDecode(SubSeq(text, 3, Len(text))).ok
  /\ DecodeMultiSignature(HexDecode(SubSeq(text, 3, Len(text))).value).ok

\* C13: when the signer answers with a text that is not 0x followed by the hex
\* of a MultiSignature, the signing task ends without a panic and the stage
\* becomes Error.
C13_MalformedSignatureIsError ==
  [][\A t \in tasks : \A response \in SignerResponses :
       (/\ response.kind = "string"
        /\ ~WellFormedSignature(response.text)
        /\ SigningSignatureStep(t, response))
         => /\ panicked' = NoPanic
            /\ stage'.tag = "Error"
            /\ t \notin tasks']_vars

(***************************************************************************)
(* The payload.                                                            *)
(***************************************************************************)
\* the number a text of hex digits writes, most significant digit first
RECURSIVE HexNumber(_, _)
HexNumber(chars, acc) ==
  IF chars = <<>> THEN acc ELSE HexNumber(Tail(chars), acc * 16 + HexVal(Head(chars)))

\* TRUE iff the text is 0x followed by exactly `digits` hex digits that write n
IsHexOf(text, digits, n) ==
  /\ Len(text) = digits + 2
  /\ text[1] = "0" /\ text[2] = "x"
  /\ \A i \in 3..Len(text) : HexVal(text[i]) >= 0
  /\ HexNumber(SubSeq(text, 3, Len(text)), 0) = n

\* the signing tasks that have handed a payload to the signer
AtSigner == {t \in tasks : t.kind = "sign" /\ t.pc = "signature"}

\* C14: in every payload the nonce is 0x and 16 hex digits that write the
\* nonce, specVersion and transactionVersion are 0x and 8 hex digits that write
\* the version, and none of the three is the hex of the compact encoding.
C14_RepresentationSelection ==
  \A t \in AtSigner :
    LET p == SignerRequest(t).payload
    IN /\ IsHexOf(p.nonce, 16, t.nonce)
       /\ IsHexOf(p.specVersion, 8, t.api.spec_version)
       /\ IsHexOf(p.transactionVersion, 8, t.api.transaction_version)
       /\ p.nonce # encode_then_hex(CompactEncode(t.nonce))
       /\ p.specVersion # encode_then_hex(CompactEncode(t.api.spec_version))
       /\ p.transactionVersion # encode_then_hex(CompactEncode(t.api.transaction_version))

\* C14: the payload of a request with nonce 5 is at the signer, with the nonce
\* field 0x0000000000000005.
C14_Witness ==
  \E t \in AtSigner :
    /\ t.nonce = 5
    /\ SignerRequest(t).payload.nonce =
         <<"0", "x", "0", "0", "0", "0", "0", "0", "0", "0", "0", "0", "0", "0", "0",
           "0", "0", "5">>

\* C15: every payload has exactly the twelve keys, version 4, the block number
\* 0x00000000, the address of the account chosen, and as method 0x followed by
\* the hex of the call data of the request.
C15_WireShape ==
  \A t \in AtSigner :
    LET p == SignerRequest(t).payload
    IN /\ DOMAIN p = {"specVersion", "transactionVersion", "address", "blockHash",
                      "blockNumber", "era", "genesisHash", "method", "nonce",
                      "signedExtensions", "tip", "version"}
       /\ p.version = 4
       /\ p.blockNumber = <<"0", "x", "0", "0", "0", "0", "0", "0", "0", "0">>
       /\ p.address = t.account.address
       /\ Len(p.method) >= 2 /\ p.method[1] = "0" /\ p.method[2] = "x"
       /\ HexDecode(SubSeq(p.method, 3, Len(p.method))) = Ok(EncodeCallData(t.vote_call))

\* C15: the payload of a request for Bob after the runtime upgrade is at the
\* signer.
C15_Witness ==
  \E t \in AtSigner : t.account = Bob /\ t.api = UpgradedKusamaClient

\* C16: in every payload the era is the hex of the immortal era, the tip the
\* hex of compact zero, and blockHash is the genesisHash field, the hex of the
\* genesis hash of the chain.
C16_EraPolicy ==
  \A t \in AtSigner :
    LET p == SignerRequest(t).payload
    IN /\ p.era = <<"0", "x", "0", "0">>
       /\ p.tip = <<"0", "x", "0", "0">>
       /\ p.blockHash = p.genesisHash
       /\ Len(p.genesisHash) = 66 /\ p.genesisHash[1] = "0" /\ p.genesisHash[2] = "x"
       /\ HexDecode(SubSeq(p.genesisHash, 3, 66)) = Ok(t.api.genesis_hash)

\* C16: a payload with the largest nonce is at the signer.
C16_Witness ==
  \E t \in AtSigner : t.nonce = 2147483647 /\ t.account = Alice

(***************************************************************************)
(* The subscription to finalized blocks.                                   *)
(***************************************************************************)
\* C17: no step of a subscription to finalized blocks (a block, a failure,
\* the end of the stream) changes the stage, the balance, the conviction or
\* the cached call data, and none aborts the program.
C17_SubscriptionIsInformational ==
  [][\A t \in tasks : \A event \in SubscriptionEvents :
       SubscribeStep(t, event)
         => /\ UNCHANGED <<stage, balance, conviction, vote_call_bytes>>
            /\ panicked' = NoPanic]_vars

(***************************************************************************)
(* The order of the stages.                                                *)
(***************************************************************************)
\* C19: SubmitSigned processed when the stage is not SigningSuccess with the
\* submitting stage Initial changes no field and starts no task.
C19_SubmitSignedNoOp ==
  [][(/\ SubmitSigned
      /\ ~(stage.tag = "SigningSuccess" /\ stage.submitting_stage.tag = "Initial"))
       => UNCHANGED <<component, tasks, submitted, panicked>>]_vars

\* C19: an extrinsic is being submitted under the request SubmitSigned made
\* with the third message, and a fourth message has left everything else as
\* the creation of the client set it.
C19_Witness ==
  /\ stage.tag = "SigningSuccess" /\ stage.submitting_stage.tag = "Submitting"
  /\ sent = 4
  /\ \E t \in tasks : t.kind = "submit" /\ t.id = 3
  /\ balance = U128(1) /\ conviction = "Lock1X" /\ message = <<>>

\* C20: the stage becomes Signing(a) only from SelectAccount(list), by
\* SignWithAccount(i) with i below the length of the list and a the account
\* at index i; it becomes SigningSuccess only from Signing, with the account of
\* that Signing stage; and SignWithAccount in a stage other than SelectAccount
\* changes no field and starts no task.
C20_StageOrdering ==
  [][/\ (stage'.tag = "Signing" /\ stage' # stage)
          => /\ stage.tag = "SelectAccount"
             /\ \E i \in IndexInputs :
                  /\ i < Len(stage.accounts)
                  /\ SignWithAccount(i)
                  /\ stage'.account = stage.accounts[i + 1]
     /\ (stage'.tag = "SigningSuccess" /\ stage.tag # "SigningSuccess")
          => /\ stage.tag = "Signing"
             /\ stage'.signer_account = stage.account
     /\ \A i \in IndexInputs :
          (SignWithAccount(i) /\ stage.tag # "SelectAccount")
            => UNCHANGED <<component, tasks, submitted, panicked>>]_vars

\* C20: the second account of the list has been chosen and its signature has
\* arrived.
C20_Witness ==
  /\ stage.tag = "SigningSuccess"
  /\ stage.signer_account = Bob
  /\ stage.submitting_stage.tag = "Initial"

(***************************************************************************)
(* The outcome of a submission.                                            *)
(***************************************************************************)
\* C18: the outcome of a submission makes the submitting stage Success or
\* Error when the submitting stage is Submitting, and leaves the stage as it
\* is otherwise: an extrinsic held in Initial stays there.
C18_OutcomeOnlyFromSubmitting ==
  [][\A t \in tasks : \A outcome \in SubmissionOutcomes :
       SubmitDone(t, outcome)
         => IF stage.tag = "SigningSuccess" /\ stage.submitting_stage.tag = "Submitting"
            THEN stage'.submitting_stage.tag \in {"Success", "Error"}
            ELSE stage' = stage]_vars

(***************************************************************************)
(* The intent shown and the call signed.                                   *)
(***************************************************************************)
\* the extrinsic the SigningSuccess stage is about: the one held in Initial,
\* or the one SubmitSigned moved into the submission that is in flight
SignedOfStage ==
  IF stage.tag # "SigningSuccess" THEN {}
  ELSE IF stage.submitting_stage.tag = "Initial"
  THEN {stage.submitting_stage.signed_extrinsic}
  ELSE IF stage.submitting_stage.tag = "Submitting"
  THEN {t.extrinsic : t \in {u \in tasks : /\ u.kind = "submit"
                                           /\ submitted # <<>>
                                           /\ u.extrinsic.req = submitted[Len(submitted)]}}
  ELSE {}

\* C21: in every state whose stage is SigningSuccess, the call of the
\* extrinsic held or being submitted is the call of the current conviction
\* and the current balance, and its encoding is the cached call data.
C21_SignedMatchesIntent ==
  \A ext \in SignedOfStage :
    /\ ext.call.vote = to_value(conviction)
    /\ ext.call.balance = Truncate(Scaled[balance], U128Len)
    /\ EncodeCallData(ext.call) = vote_call_bytes

(***************************************************************************)
(* The outcome of a submission reaches the user.                           *)
(***************************************************************************)
\* the submitting stage that shows what a submission observed
OutcomeShown(outcome) ==
  LET result == submit_wait_finalized_and_get_extrinsic_success_event(outcome)
  IN IF result.ok THEN Success(result.value) ELSE SubmittingError(result.error)

\* C22: a submission delivers its outcome in one message, once.  When that
\* message is processed and the user has sent nothing since the SubmitSigned
\* that started the submission, the stage is SigningSuccess afterwards and
\* its submitting stage shows the outcome: no message of another task
\* processed in between has made the outcome unshowable.
C22_OutcomeSurfaced ==
  [][\A t \in tasks : \A outcome \in SubmissionOutcomes :
       (SubmitDone(t, outcome) /\ t.id = sent)
         => /\ stage'.tag = "SigningSuccess"
            /\ stage'.submitting_stage = OutcomeShown(outcome)]_vars

(***************************************************************************)
(* The creation of the client.                                             *)
(***************************************************************************)
\* the tasks that create the client
CreateTasks == {t \in tasks : t.kind = "create_client"}

\* the call data of a vote of 1 KSM (10^12 units) with Lock1X on referendum 275
OneUnitLock1XCallData ==
  <<20, 0, 77, 4, 0, 129, 0, 16, 165, 212, 232, 0, 0, 0, 0, 0, 0, 0, 0, 0, 0, 0>>

\* C23: the session starts in CreatingOnlineClient without a client and with
\* one creation task; while that task has not answered there is no client;
\* its answer is processed once, as OnlineClientCreated (the client is
\* stored, the stage is EnterBalance, the intent is balance 1 with Lock1X
\* and the call data encodes it) or as Error (the stage is Error, the client
\* stays absent and the intent is untouched); no other step stores a client.
C23_ClientCreation ==
  /\ (stage = CreatingOnlineClient /\ online_client = None /\ Cardinality(CreateTasks) = 1)
  /\ [](Cardinality(CreateTasks) <= 1 /\ (CreateTasks # {} => online_client = None))
  /\ [][/\ \A t \in tasks : \A result \in ClientResults :
             CreateClientDone(t, result)
               => /\ CreateTasks' = {}
                  /\ panicked' = NoPanic
                  /\ IF result.ok
                     THEN /\ online_client' = Some(result.value)
                          /\ stage' = EnterBalance
                          /\ balance' = U128(1)
                          /\ conviction' = "Lock1X"
                          /\ vote_call_bytes' = OneUnitLock1XCallData
                     ELSE /\ stage'.tag = "Error"
                          /\ online_client' = None
                          /\ UNCHANGED <<balance, conviction, vote_call_bytes>>
        /\ online_client' # online_client => CreateTasks # {} /\ CreateTasks' = {}
        /\ CreateTasks' \subseteq CreateTasks]_vars

\* C23: the client has been created and no message of the user has followed.
C23_Witness ==
  /\ online_client = Some(KusamaClient)
  /\ stage = EnterBalance
  /\ balance = U128(1) /\ conviction = "Lock1X"
  /\ CreateTasks = {}
  /\ sent = 0

(***************************************************************************)
(* The balance of the vote call.                                           *)
(***************************************************************************)
\* C24: with the client present, ChangeBalance of a text that parses as a
\* u128 value v aborts nothing and caches the call data whose balance is
\* v x 10^12, which takes a product that fits 128 bits; and the call a
\* SignWithAccount hands to its signing task has the current balance times
\* 10^12 as its balance, exactly.
C24_ExactScaling ==
  [][/\ \A text \in BalanceInputs :
          (ChangeBalance(text) /\ Parsed[text].ok /\ online_client.some)
            => /\ panicked' = NoPanic
               /\ FitsIn(Scaled[Parsed[text].value], U128Len)
               /\ vote_call_bytes' =
                    EncodeCallData(VoteCall(to_value(conviction),
                                            Truncate(Scaled[Parsed[text].value], U128Len)))
     /\ \A i \in IndexInputs :
          (SignWithAccount(i) /\ stage'.tag = "Signing" /\ online_client.some)
            => /\ panicked' = NoPanic
               /\ FitsIn(Scaled[balance], U128Len)
               /\ \A t \in tasks' \ tasks :
                    t.vote_call.balance = Truncate(Scaled[balance], U128Len)]_vars

\* the call data of a vote of 100 KSM with the given conviction
DefaultBalanceCallData(c) ==
  EncodeCallData(VoteCall(to_value(c), Truncate(ExactScaled(U128(100)), U128Len)))

\* C25: ChangeBalance of a text that does not parse as a u128 aborts nothing,
\* sets the balance to 100, keeps the conviction, caches the call data of
\* balance 100 and leaves the stage as it is.
C25_UnparsableBalance ==
  [][\A text \in BalanceInputs :
       (ChangeBalance(text) /\ ~Parsed[text].ok)
         => /\ panicked' = NoPanic
            /\ balance' = U128(100)
            /\ conviction' = conviction
            /\ vote_call_bytes' = DefaultBalanceCallData(conviction)
            /\ stage' = stage]_vars

(***************************************************************************)
(* The vote byte.  The intent and the signing requests alone, over all six *)
(* convictions: the session from the choice of the account on, with the    *)
(* messages that set the intent and the one that starts a signing request. *)
(***************************************************************************)
VoteNext ==
  \/ \E text \in BalanceInputs : ChangeBalance(text)
  \/ \E c \in Conviction : ChangeConviction(c)
  \/ \E i \in IndexInputs : SignWithAccount(i)

VoteSpec == SelectInit /\ [][VoteNext]_vars

\* the variants of Conviction in the order of their declaration: LockNX is
\* the N-th
ConvictionOrder == <<"Lock1X", "Lock2X", "Lock3X", "Lock4X", "Lock5X", "Lock6X">>

\* the N of the conviction LockNX
Multiplier(c) == CHOOSE n \in 1..6 : ConvictionOrder[n] = c

\* TRUE iff the bytes are the call data of a vote on referendum 275 whose
\* vote byte is `byte`: pallet and call index, Compact(275) = 4d 04, the
\* Standard variant, the vote byte, sixteen bytes of balance
IsVoteOn275(bytes, byte) ==
  /\ Len(bytes) = 22
  /\ SubSeq(bytes, 1, 2) = <<ConvictionVotingPallet, VoteCallIndex>>
  /\ SubSeq(bytes, 3, 4) = <<77, 4>>
  /\ bytes[5] = StandardVariant
  /\ bytes[6] = byte

\* C26: to_value of LockNX is 128 + N for N in 1..6 (the aye bit 0x80 and N in
\* the low bits) and the six bytes are pairwise distinct; the cached call
\* data is a vote on referendum 275 with the byte of the current conviction;
\* and the call SignWithAccount hands to its signing task is a vote on
\* referendum 275 with the byte of the conviction current at that moment.
C26_AlwaysAye ==
  /\ [](/\ \A n \in 1..6 :
             /\ to_value(ConvictionOrder[n]) = 128 + n
             /\ to_value(ConvictionOrder[n]) \div 128 = 1
             /\ to_value(ConvictionOrder[n]) % 128 = n
        /\ \A c, d \in Conviction : to_value(c) = to_value(d) => c = d
        /\ IsVoteOn275(vote_call_bytes, 128 + Multiplier(conviction))
        /\ \A t \in tasks :
             t.kind = "sign"
               => /\ t.vote_call.poll_index = 275
                  /\ t.vote_call.vote \in 129..134
                  /\ IsVoteOn275(EncodeCallData(t.vote_call), t.vote_call.vote))
  /\ [][\A i \in IndexInputs :
          SignWithAccount(i)
            => \A t \in tasks' \ tasks :
                 /\ t.vote_call.vote = 128 + Multiplier(conviction)
                 /\ t.vote_call.poll_index = 275]_vars

\* C26: a signing request for a vote with Lock3X is in flight, and the user
\* has chosen Lock5X since.
C26_Witness ==
  /\ conviction = "Lock5X"
  /\ vote_call_bytes[6] = 133
  /\ \E t \in tasks : t.kind = "sign" /\ t.vote_call.vote = 131

====
